---------------------------- MODULE Spec2Model ----------------------------
(***************************************************************************)
(* A model of the EasyBlink LED controller (src/src/lib.rs): the colour    *)
(* model (hsv_to_rgb, rgb_to_hsv) and the pattern engine of                *)
(* EasyBlinkController, frame by frame and pixel by pixel.                 *)
(*                                                                         *)
(* The code computes in f32.  An f32 is modelled bit-exactly as a triple   *)
(* <<s, m, e>> that stands for s * m * 2^e, with s in {1,-1} and either    *)
(* m = 0 (zero, written <<1,0,0>>) or 2^23 <= m < 2^24 (24 significant     *)
(* bits).  Every operation rounds to nearest, ties to even, as IEEE-754    *)
(* single precision does.  The magnitudes the program produces stay far    *)
(* from the subnormal and the overflow range, and the sign of a zero is    *)
(* never observed (casts and comparisons treat -0.0 as 0.0), so neither    *)
(* is represented.  All intermediate integers stay below 2^31.             *)
(***************************************************************************)
EXTENDS Integers, Sequences, FiniteSets, TLC

(***************************************************************************)
(* f32 arithmetic                                                          *)
(***************************************************************************)
P2 == <<1, 2, 4, 8, 16, 32, 64, 128, 256, 512, 1024, 2048, 4096, 8192,
        16384, 32768, 65536, 131072, 262144, 524288, 1048576, 2097152,
        4194304, 8388608, 16777216, 33554432, 67108864, 134217728,
        268435456, 536870912, 1073741824>>

Pow2(k) == P2[k + 1]

\* number of significant bits of N, 0 < N < 2^30
BitLen(N) ==
    IF N < 32768
    THEN IF N < 256
         THEN IF N < 16
              THEN IF N < 4
                   THEN IF N < 2
                        THEN 1
                        ELSE 2
                   ELSE IF N < 8
                        THEN 3
                        ELSE 4
              ELSE IF N < 64
                   THEN IF N < 32
                        THEN 5
                        ELSE 6
                   ELSE IF N < 128
                        THEN 7
                        ELSE 8
         ELSE IF N < 4096
              THEN IF N < 1024
                   THEN IF N < 512
                        THEN 9
                        ELSE 10
                   ELSE IF N < 2048
                        THEN 11
                        ELSE 12
              ELSE IF N < 16384
                   THEN IF N < 8192
                        THEN 13
                        ELSE 14
                   ELSE 15
    ELSE IF N < 8388608
         THEN IF N < 524288
              THEN IF N < 131072
                   THEN IF N < 65536
                        THEN 16
                        ELSE 17
                   ELSE IF N < 262144
                        THEN 18
                        ELSE 19
              ELSE IF N < 2097152
                   THEN IF N < 1048576
                        THEN 20
                        ELSE 21
                   ELSE IF N < 4194304
                        THEN 22
                        ELSE 23
         ELSE IF N < 134217728
              THEN IF N < 33554432
                   THEN IF N < 16777216
                        THEN 24
                        ELSE 25
                   ELSE IF N < 67108864
                        THEN 26
                        ELSE 27
              ELSE IF N < 536870912
                   THEN IF N < 268435456
                        THEN 28
                        ELSE 29
                   ELSE 30

F32Zero == <<1, 0, 0>>

\* F32Pack, the rounded mantissa q: a carry out of 24 bits renormalises
PackCarry(s, q, e) == IF q = Pow2(24) THEN <<s, Pow2(23), e + 1>> ELSE <<s, q, e>>

\* F32Pack, N = q * 2^k + r: round to nearest, ties to even
PackRound(s, q, r, k, e, sticky) ==
    PackCarry(s,
              IF r > Pow2(k - 1) \/ (r = Pow2(k - 1) /\ (sticky = 1 \/ q % 2 = 1))
              THEN q + 1 ELSE q,
              e + k)

\* F32Pack, L the number of bits of N
PackBits(s, N, e, sticky, L) ==
    IF L <= 24 THEN <<s, N * Pow2(24 - L), e - (24 - L)>>
    ELSE PackRound(s, N \div Pow2(L - 24), N % Pow2(L - 24), L - 24, e, sticky)

\* the f32 nearest to s * (N + t) * 2^e, where t = 0 when sticky = 0 and
\* 0 < t < 1 when sticky = 1 (then N >= 2^25): round to nearest, ties to even
F32Pack(s, N, e, sticky) ==
    IF N = 0 THEN F32Zero ELSE PackBits(s, N, e, sticky, BitLen(N))

\* `k as f32` for an integer |k| < 2^24 (exact)
F32FromInt(k) == IF k < 0 THEN F32Pack(-1, -k, 0, 0) ELSE F32Pack(1, k, 0, 0)

F32Neg(a) == IF a[2] = 0 THEN a ELSE <<-a[1], a[2], a[3]>>

F32Abs(a) == <<1, a[2], a[3]>>

\* F32Mul: the 48-bit product is H * 2^24 + L
MulPack(s, e, H, L) ==
    F32Pack(s, H * 64 + (L \div 262144), e, IF L % 262144 = 0 THEN 0 ELSE 1)

\* F32Mul: the product is hi * 2^24 + mid * 2^12 + low
MulSum(s, e, hi, mid, low) ==
    MulPack(s, e,
            hi + (mid \div 4096) + ((low + (mid % 4096) * 4096) \div 16777216),
            (low + (mid % 4096) * 4096) % 16777216)

\* F32Mul: the mantissas in halves of 12 bits
MulHalves(s, e, a1, a0, b1, b0) == MulSum(s, e, a1 * b1, a1 * b0 + a0 * b1, a0 * b0)

\* a * b
F32Mul(a, b) ==
    IF a[2] = 0 \/ b[2] = 0 THEN F32Zero
    ELSE MulHalves(a[1] * b[1], a[3] + b[3] + 18,
                   a[2] \div 4096, a[2] % 4096, b[2] \div 4096, b[2] % 4096)

\* F32Div: k more quotient bits (k a power of two) of <<quotient, remainder>>
DivStep(qr, d, k) == <<qr[1] * k + ((qr[2] * k) \div d), (qr[2] * k) % d>>

DivPack(s, e, qr) == F32Pack(s, qr[1], e, IF qr[2] = 0 THEN 0 ELSE 1)

\* a / b, b # 0: 26 quotient bits by long division, the remainder is sticky
F32Div(a, b) ==
    IF a[2] = 0 THEN F32Zero
    ELSE DivPack(a[1] * b[1], a[3] - b[3] - 26,
                 DivStep(DivStep(DivStep(DivStep(DivStep(
                     <<a[2] \div b[2], a[2] % b[2]>>,
                     b[2], 64), b[2], 64), b[2], 64), b[2], 64), b[2], 4))

\* F32Add, |big| >= |small|, exponents apart by more than 5: five guard bits
\* on big, the bits of small shifted out are sticky
AddFar(big, small, sh) ==
    IF sh >= 25 \/ small[2] % Pow2(sh) # 0
    THEN F32Pack(big[1],
                 IF big[1] = small[1]
                 THEN big[2] * 32 + (IF sh >= 25 THEN 0 ELSE small[2] \div Pow2(sh))
                 ELSE big[2] * 32 - (IF sh >= 25 THEN 0 ELSE small[2] \div Pow2(sh)) - 1,
                 big[3] - 5, 1)
    ELSE F32Pack(big[1],
                 IF big[1] = small[1]
                 THEN big[2] * 32 + (small[2] \div Pow2(sh))
                 ELSE big[2] * 32 - (small[2] \div Pow2(sh)),
                 big[3] - 5, 0)

\* F32Add, |big| >= |small|, both nonzero
AddOrdered(big, small) ==
    IF big[3] - small[3] <= 5
    THEN F32Pack(big[1],
                 IF big[1] = small[1]
                 THEN big[2] * Pow2(big[3] - small[3]) + small[2]
                 ELSE big[2] * Pow2(big[3] - small[3]) - small[2],
                 small[3], 0)
    ELSE AddFar(big, small, big[3] - small[3] - 5)

\* a + b
F32Add(a, b) ==
    IF a[2] = 0 THEN b
    ELSE IF b[2] = 0 THEN a
    ELSE IF a[3] > b[3] \/ (a[3] = b[3] /\ a[2] >= b[2])
    THEN AddOrdered(a, b)
    ELSE AddOrdered(b, a)

F32Sub(a, b) == F32Add(a, F32Neg(b))

\* |x| < |y|, both nonzero
MagLt(x, y) == x[3] < y[3] \/ (x[3] = y[3] /\ x[2] < y[2])

\* a < b
F32Lt(a, b) ==
    IF a[2] = 0 THEN b[2] # 0 /\ b[1] = 1
    ELSE IF b[2] = 0 THEN a[1] = -1
    ELSE IF a[1] # b[1] THEN a[1] = -1
    ELSE IF a[1] = 1 THEN MagLt(a, b) ELSE MagLt(b, a)

F32Le(a, b) == a = b \/ F32Lt(a, b)

\* f32::max and f32::min
F32Max(a, b) == IF F32Lt(a, b) THEN b ELSE a

F32Min(a, b) == IF F32Lt(b, a) THEN b ELSE a

\* `a as i32`: truncation toward zero (|a| < 2^24 here)
F32Trunc(a) ==
    IF a[2] = 0 THEN 0
    ELSE IF a[3] >= 0 THEN a[1] * a[2] * Pow2(a[3])
    ELSE IF -a[3] >= 24 THEN 0
    ELSE a[1] * (a[2] \div Pow2(-a[3]))

\* a.round(): the nearest integer, halves away from zero
F32Round(a) ==
    IF a[2] = 0 THEN 0
    ELSE IF a[3] >= 0 THEN a[1] * a[2] * Pow2(a[3])
    ELSE IF -a[3] >= 25 THEN 0
    ELSE a[1] * ((a[2] \div Pow2(-a[3]))
                 + (IF a[2] % Pow2(-a[3]) >= Pow2(-a[3] - 1) THEN 1 ELSE 0))

\* `as u8` of an integral float: saturating
AsU8(k) == IF k < 0 THEN 0 ELSE IF k > 255 THEN 255 ELSE k

\* a % k for an integer k > 0 (Rust's %: fmod, the sign of the dividend); exact
F32Rem(a, k) == F32Sub(a, F32FromInt(a[1] * ((F32Trunc(F32Abs(a)) \div k) * k)))

\* the f32 literal num/den
F32Lit(num, den) == F32Div(F32FromInt(num), F32FromInt(den))

F32One == <<1, 8388608, -23>>

(***************************************************************************)
(* Colour model                                                            *)
(***************************************************************************)
\* round((c + m) * 255.0)
Rounded(c, m) == F32Round(F32Mul(F32Add(c, m), F32FromInt(255)))

\* 1.0 - ((hue as f32 / 60.0) % 2.0 - 1.0).abs()
HueRamp(hue) ==
    F32Sub(F32One,
           F32Abs(F32Sub(F32Rem(F32Div(F32FromInt(hue), F32FromInt(60)), 2), F32One)))

\* the sectors with the two channels of 120..240 exchanged
HsvSectorSwapped(hue, chroma, x, m) ==
    IF hue >= 0 /\ hue < 60 THEN <<Rounded(chroma, m), Rounded(x, m), Rounded(F32Zero, m)>>
    ELSE IF hue >= 60 /\ hue < 120 THEN <<Rounded(x, m), Rounded(chroma, m), Rounded(F32Zero, m)>>
    ELSE IF hue >= 120 /\ hue < 180 THEN <<Rounded(F32Zero, m), Rounded(x, m), Rounded(chroma, m)>>
    ELSE IF hue >= 180 /\ hue < 240 THEN <<Rounded(F32Zero, m), Rounded(chroma, m), Rounded(x, m)>>
    ELSE IF hue >= 240 /\ hue < 300 THEN <<Rounded(x, m), Rounded(F32Zero, m), Rounded(chroma, m)>>
    ELSE <<Rounded(chroma, m), Rounded(F32Zero, m), Rounded(x, m)>>

\* hsv_to_rgb: (r1, g1, b1) by the sector of hue, then the three channels
HsvSector(hue, chroma, x, m) ==
    IF hue >= 0 /\ hue < 60 THEN <<Rounded(chroma, m), Rounded(x, m), Rounded(F32Zero, m)>>
    ELSE IF hue >= 60 /\ hue < 120 THEN <<Rounded(x, m), Rounded(chroma, m), Rounded(F32Zero, m)>>
    ELSE IF hue >= 120 /\ hue < 180 THEN <<Rounded(F32Zero, m), Rounded(chroma, m), Rounded(x, m)>>
    ELSE IF hue >= 180 /\ hue < 240 THEN <<Rounded(F32Zero, m), Rounded(x, m), Rounded(chroma, m)>>
    ELSE IF hue >= 240 /\ hue < 300 THEN <<Rounded(x, m), Rounded(F32Zero, m), Rounded(chroma, m)>>
    ELSE <<Rounded(chroma, m), Rounded(F32Zero, m), Rounded(x, m)>>

\* hsv_to_rgb with chroma = value * saturation
HsvChroma(hue, value, chroma) ==
    HsvSector(hue, chroma, F32Mul(chroma, HueRamp(hue)), F32Sub(value, chroma))

\* hsv_to_rgb's channels after round() and before the cast to u8
hsv_rounded(hue, saturation, value) ==
    HsvChroma(hue, value, F32Mul(value, F32FromInt(saturation)))

CastU8(c) == <<AsU8(c[1]), AsU8(c[2]), AsU8(c[3])>>

hsv_to_rgb(hue, saturation, value) == CastU8(hsv_rounded(hue, saturation, value))

\* rgb_to_hsv: the hue in degrees, a float
HueDegrees(r, g, b, max, delta) ==
    IF delta = F32Zero THEN F32Zero
    ELSE IF max = r
    THEN F32Mul(F32FromInt(60), F32Rem(F32Div(F32Sub(g, b), delta), 6))
    ELSE IF max = g
    THEN F32Mul(F32FromInt(60), F32Add(F32Div(F32Sub(b, r), delta), F32FromInt(2)))
    ELSE F32Mul(F32FromInt(60), F32Add(F32Div(F32Sub(r, g), delta), F32FromInt(4)))

\* rgb_to_hsv: the saturation, a float
Saturation(max, delta) == IF max = F32Zero THEN F32Zero ELSE F32Div(delta, max)

\* rgb_to_hsv from max and delta: (hue as i32, saturation as i32, value)
HsvCast(r, g, b, max, delta) ==
    <<F32Trunc(HueDegrees(r, g, b, max, delta)), F32Trunc(Saturation(max, delta)), max>>

\* rgb_to_hsv from max and min
HsvMaxMin(r, g, b, max, min) == HsvCast(r, g, b, max, F32Sub(max, min))

\* rgb_to_hsv on the channels normalised to [0, 1]
HsvNormalised(r, g, b) ==
    HsvMaxMin(r, g, b, F32Max(F32Max(r, g), b), F32Min(F32Min(r, g), b))

rgb_to_hsv(r8, g8, b8) ==
    HsvNormalised(F32Div(F32FromInt(r8), F32FromInt(255)),
                  F32Div(F32FromInt(g8), F32FromInt(255)),
                  F32Div(F32FromInt(b8), F32FromInt(255)))

(***************************************************************************)
(* Controller: constants and the arithmetic of the pattern routines        *)
(***************************************************************************)
RED_HUE == 0
ORANGE_HUE == 18
YELLOW_HUE == 40
GREEN_HUE == 116
BLUE_HUE == 240
PURPLE_HUE == 266

\* the hue each routine gets for a Color; Rainbow is the sentinel -1
RAINBOW == -1

Colors == {"Red", "Orange", "Yellow", "Green", "Blue", "Purple", "Rainbow"}

HueOf(color) ==
    CASE color = "Rainbow" -> RAINBOW
      [] color = "Red"     -> RED_HUE
      [] color = "Orange"  -> ORANGE_HUE
      [] color = "Yellow"  -> YELLOW_HUE
      [] color = "Green"   -> GREEN_HUE
      [] color = "Blue"    -> BLUE_HUE
      [] color = "Purple"  -> PURPLE_HUE

\* the palette execute_colorway_pattern hands to christmas_traditional
ChristmasPalette == <<-1, 0, 120, 240, 270>>

\* ((i as f32 / num_leds as f32) * 359.0) as i32
RainbowHue(idx, n) ==
    F32Trunc(F32Mul(F32Div(F32FromInt(idx), F32FromInt(n)), F32FromInt(359)))

\* pulse_color
max_steps == 100

midpoint == max_steps \div 2

\* a ramp that climbs over all of the steps and never comes down
PulseValueClimbing(s) ==
    F32Add(F32Lit(15, 100),
           F32Mul(F32Lit(85, 100), F32Div(F32FromInt(s), F32FromInt(max_steps))))

PulseValue(s) ==
    IF s <= midpoint
    THEN F32Add(F32Lit(15, 100),
                F32Mul(F32Lit(85, 100), F32Div(F32FromInt(s), F32FromInt(midpoint))))
    ELSE F32Sub(F32One,
                F32Mul(F32Lit(85, 100),
                       F32Div(F32FromInt(s - midpoint), F32FromInt(midpoint))))

\* chase, Color::Rainbow: ((offset + (360.0 / n) * i) % 360.0) as i32
rainbow_offsets == 360

ChaseRainbowHue(offset, idx, n) ==
    F32Trunc(F32Rem(F32Add(F32FromInt(offset),
                           F32Mul(F32Div(F32FromInt(360), F32FromInt(n)), F32FromInt(idx))),
                    360))

\* chase_color
band_size == 30

NumBands(n) == IF n > band_size THEN n \div band_size ELSE 1

BandWidth(n) == n \div (2 * NumBands(n))

\* current_value of one band at pos_in_band; powf(2.0) is the square
Squared(t) == F32Mul(t, t)

\* a band without the powf(2.0): a linear rise and fall
CurrentValueLinear(pos_in_band, band_width) ==
    IF pos_in_band < band_width
    THEN F32Div(F32FromInt(pos_in_band), F32FromInt(band_width))
    ELSE IF pos_in_band < 2 * band_width
    THEN F32Sub(F32One,
                F32Div(F32FromInt(pos_in_band - band_width), F32FromInt(band_width)))
    ELSE F32Zero

CurrentValue(pos_in_band, band_width) ==
    IF pos_in_band < band_width
    THEN Squared(F32Div(F32FromInt(pos_in_band), F32FromInt(band_width)))
    ELSE IF pos_in_band < 2 * band_width
    THEN Squared(F32Sub(F32One,
                        F32Div(F32FromInt(pos_in_band - band_width),
                               F32FromInt(band_width))))
    ELSE F32Zero

PosInBand(n, idx, s, band) == (idx + s + band * 2 * BandWidth(n)) % n

\* the loop over the bands, from band on, with value = acc so far
RECURSIVE ChaseValueFrom(_, _, _, _, _)
ChaseValueFrom(band, acc, n, idx, s) ==
    IF band >= NumBands(n) THEN acc
    ELSE ChaseValueFrom(band + 1,
                        F32Max(acc, CurrentValue(PosInBand(n, idx, s, band), BandWidth(n))),
                        n, idx, s)

ChaseValue(n, idx, s) == ChaseValueFrom(0, F32Zero, n, idx, s)

\* sparkle_color, fireplace, christmas_traditional
\* rng.gen_range(1..=NumSparksMax(n))
\* a draw from 1..=num_leds whatever the length of the strip
NumSparksMaxWhole(n) == n

NumSparksMax(n) == IF n < 10 THEN n ELSE n \div 10

SparkleDecay == F32Lit(75, 100)

FireplaceDecay == F32Lit(85, 100)

\* the dim step of one pixel: rgb_to_hsv, value * decay, hsv_to_rgb
DimHsv(px) == rgb_to_hsv(px[1], px[2], px[3])

DimRgb(hsv, decay) == hsv_to_rgb(hsv[1], hsv[2], F32Mul(hsv[3], decay))

Dimmed(px, decay) == DimRgb(DimHsv(px), decay)

\* knightrider_color
AtLeastOne(t) == IF t < 1 THEN 1 ELSE t

TailLength(n) == AtLeastOne(F32Trunc(F32Mul(F32FromInt(n), F32Lit(4, 10))))

TotalSteps(n) == 2 * n

Distance(pos, idx) == IF pos - idx < 0 THEN idx - pos ELSE pos - idx

TailBrightness(distance, tail) ==
    IF distance <= tail
    THEN F32Sub(F32One, F32Div(F32FromInt(distance), F32FromInt(tail)))
    ELSE F32Zero

KnightBrightness(pos, idx, tail) == TailBrightness(Distance(pos, idx), tail)

\* Blinkt::set_pixel on the buffer (0-based index)
SetPixel(buf, idx, px) == IF idx < Len(buf) THEN [buf EXCEPT ![idx + 1] = px] ELSE buf

(***************************************************************************)
(* Bounds of the model                                                     *)
(***************************************************************************)
\* strips of 1..MaxLeds pixels
MaxLeds == 2

\* a random range of at most MaxDraw values is drawn from in full, a larger
\* one at its two ends
MaxDraw == 2

Draws(lo, hi) == IF hi - lo < MaxDraw THEN lo..hi ELSE {lo, hi}

\* rng.gen_range(0.5..=1.0): the two ends and one value between
SparkValues == {F32Lit(1, 2), F32Lit(3, 5), F32One}

\* rng.gen_range(0.0..25.0) as i32
FireplaceHues == Draws(0, 24)

\* the strips of the spark routines: SmallStrip (fewer than 10 pixels), 10, and
\* LargeStrip
SmallStrip == 5

LargeStrip == 20

\* the strip of the fading sparkle
FadeLeds == 2

\* a strip long enough for the rainbow to come within two degrees of 360
WideLeds == 360

(***************************************************************************)
(* State                                                                   *)
(***************************************************************************)
VARIABLES
    num_leds,     \* EasyBlinkController.num_leds
    pixels,       \* EasyBlinkController.blinkt: the pixel buffer, <<r, g, b>> each
    routine,      \* the pattern routine running (or the last that ran), "none" at first
    pc,           \* "idle", or where the routine is: "dim", "draw", "spark",
                  \* "write", "update", "show", "sleep"; "panicked" after a failed show
    hue,          \* the routine's hue argument
    step,         \* the frame loop's counter (step, offset, _)
    i,            \* the pixel loop's counter
    value,        \* the brightness last computed (value, brightness)
    rgb,          \* pulse_color, solid colour: the frame's (r, g, b)
    position,     \* knightrider_color
    direction,    \* knightrider_color
    num_sparks,   \* the spark routines: sparks to draw
    sparked,      \* the spark routines: sparks drawn so far
    index,        \* the spark routines: the pixel of the last spark
    budget,       \* invocations the caller still makes, -1: without end
    hue_arg,      \* <<h>>: hsv_to_rgb was last called with hue h; <<>>: not yet
    writes,       \* set_pixel calls per pixel in this frame
    commits,      \* successful show() calls in this invocation
    delays,       \* sleep() calls in this invocation
    failed,       \* a show() of this invocation returned Err
    arg,          \* colour model on its own: the arguments
    ret           \* colour model on its own: the result, <<>> before the call

vars == <<num_leds, pixels, routine, pc, hue, step, i, value, rgb, position,
          direction, num_sparks, sparked, index, budget, hue_arg, writes,
          commits, delays, failed, arg, ret>>

knight == <<position, direction>>

sparks == <<num_sparks, sparked, index>>

colour == <<arg, ret>>

NoWrites == [j \in 1..Len(pixels) |-> 0]

\* EasyBlinkController::new(n) and a caller about to make `calls` invocations
InitWith(leds, calls) ==
    /\ num_leds \in leds
    /\ pixels = [j \in 1..num_leds |-> <<0, 0, 0>>]
    /\ routine = "none"
    /\ pc = "idle"
    /\ hue = 0
    /\ step = 0
    /\ i = 0
    /\ value = F32Zero
    /\ rgb = <<0, 0, 0>>
    /\ position = 0
    /\ direction = 1
    /\ num_sparks = 0
    /\ sparked = 0
    /\ index = 0
    /\ budget = calls
    /\ hue_arg = <<>>
    /\ writes = [j \in 1..num_leds |-> 0]
    /\ commits = 0
    /\ delays = 0
    /\ failed = FALSE
    /\ arg = <<>>
    /\ ret = <<>>

(***************************************************************************)
(* Entering a routine: execute_pattern / execute_colorway_pattern          *)
(***************************************************************************)
\* what every routine's entry does to the bookkeeping
Enter(r, h) ==
    /\ pc = "idle"
    /\ budget # 0
    /\ budget' = IF budget > 0 THEN budget - 1 ELSE budget
    /\ routine' = r
    /\ hue' = h
    /\ step' = 0
    /\ i' = 0
    /\ writes' = NoWrites
    /\ commits' = 0
    /\ delays' = 0
    /\ failed' = FALSE
    /\ UNCHANGED <<num_leds, pixels, colour>>

\* the frame of pulse_color that starts at step s: value, and the solid colour
PulseFrame(s) ==
    /\ value' = PulseValue(s)
    /\ IF hue' = RAINBOW
       THEN UNCHANGED <<rgb, hue_arg>>
       ELSE /\ rgb' = hsv_to_rgb(hue', 1, PulseValue(s))
            /\ hue_arg' = <<hue'>>
    /\ pc' = "write"

\* execute_pattern(color, Pattern::Pulse)
ExecutePulse(colors) ==
    /\ \E color \in colors : Enter("pulse_color", HueOf(color))
    /\ PulseFrame(0)
    /\ UNCHANGED <<knight, sparks>>

\* execute_pattern(color, Pattern::Chase)
ExecuteChase(colors) ==
    /\ \E color \in colors :
          Enter(IF color = "Rainbow" THEN "chase_rainbow" ELSE "chase_color", HueOf(color))
    /\ pc' = "write"
    /\ UNCHANGED <<value, rgb, knight, sparks, hue_arg>>

\* execute_pattern(color, Pattern::KnightRider)
ExecuteKnightRider(colors) ==
    /\ \E color \in colors : Enter("knightrider_color", HueOf(color))
    /\ position' = 0
    /\ direction' = 1
    /\ pc' = "write"
    /\ UNCHANGED <<value, rgb, sparks, hue_arg>>

\* execute_pattern(color, Pattern::Sparkle)
ExecuteSparkle(colors) ==
    /\ \E color \in colors : Enter("sparkle_color", HueOf(color))
    /\ pc' = "dim"
    /\ UNCHANGED <<value, rgb, knight, sparks, hue_arg>>

\* execute_colorway_pattern(ColorwayPattern::Fireplace)
ExecuteFireplace ==
    /\ Enter("fireplace", 0)
    /\ pc' = "dim"
    /\ UNCHANGED <<value, rgb, knight, sparks, hue_arg>>

\* execute_colorway_pattern(ColorwayPattern::ChristmasTraditional)
ExecuteChristmas ==
    /\ Enter("christmas_traditional", 0)
    /\ pc' = "draw"
    /\ UNCHANGED <<value, rgb, knight, sparks, hue_arg>>

\* set_num_leds(k), between two invocations: the buffer keeps its length
SetNumLeds ==
    /\ pc = "idle"
    /\ num_leds' \in 1..MaxLeds
    /\ UNCHANGED <<pixels, routine, pc, hue, step, i, value, rgb, knight, sparks, budget,
                   hue_arg, writes, commits, delays, failed, colour>>

(***************************************************************************)
(* The pixel loops                                                         *)
(***************************************************************************)
\* where the routine is after self.blinkt.set_pixel(idx, ...): at `next`; for an
\* index outside the buffer the Blinkt crate decides (it is not part of the
\* source): the call is ignored and the routine goes on, or it panics
AfterSetPixel(idx, next) ==
    IF idx < Len(pixels) THEN pc' = next ELSE pc' \in {next, "panicked"}

\* self.blinkt.set_pixel(i, r, g, b) in a frame's loop over 0..num_leds
WritePixel(px) ==
    /\ pixels' = SetPixel(pixels, i, px)
    /\ writes' = [j \in DOMAIN writes |-> IF j = i + 1 THEN writes[j] + 1 ELSE writes[j]]
    /\ i' = i + 1

\* pulse_color: one turn of `for i in 0..self.num_leds`
PulseWrite ==
    /\ pc = "write"
    /\ routine = "pulse_color"
    /\ i < num_leds
    /\ IF hue = RAINBOW
       THEN /\ WritePixel(hsv_to_rgb(RainbowHue(i, num_leds), 1, value))
            /\ hue_arg' = <<RainbowHue(i, num_leds)>>
       ELSE /\ WritePixel(rgb)
            /\ UNCHANGED hue_arg
    /\ AfterSetPixel(i, IF i + 1 < num_leds THEN "write" ELSE "show")
    /\ UNCHANGED <<num_leds, routine, hue, step, value, rgb, knight, sparks, budget,
                   commits, delays, failed, colour>>

\* chase, Color::Rainbow: one turn of `for i in 0..self.num_leds`
ChaseRainbowWrite ==
    /\ pc = "write"
    /\ routine = "chase_rainbow"
    /\ i < num_leds
    /\ WritePixel(hsv_to_rgb(ChaseRainbowHue(step, i, num_leds), 1, F32One))
    /\ hue_arg' = <<ChaseRainbowHue(step, i, num_leds)>>
    /\ value' = F32One
    /\ AfterSetPixel(i, IF i + 1 < num_leds THEN "write" ELSE "show")
    /\ UNCHANGED <<num_leds, routine, hue, step, rgb, knight, sparks, budget,
                   commits, delays, failed, colour>>

\* chase_color: one turn of `for i in 0..self.num_leds`
ChaseColorWrite ==
    /\ pc = "write"
    /\ routine = "chase_color"
    /\ i < num_leds
    /\ value' = ChaseValue(num_leds, i, step)
    /\ WritePixel(hsv_to_rgb(hue, 1, ChaseValue(num_leds, i, step)))
    /\ hue_arg' = <<hue>>
    /\ AfterSetPixel(i, IF i + 1 < num_leds THEN "write" ELSE "show")
    /\ UNCHANGED <<num_leds, routine, hue, step, rgb, knight, sparks, budget,
                   commits, delays, failed, colour>>

\* knightrider_color: one turn of `for i in 0..self.num_leds`
KnightRiderWrite ==
    /\ pc = "write"
    /\ routine = "knightrider_color"
    /\ i < num_leds
    /\ LET final_hue  == IF hue = RAINBOW THEN RainbowHue(i, num_leds) ELSE hue
           brightness == KnightBrightness(position, i, TailLength(num_leds))
       IN  /\ value' = brightness
           /\ WritePixel(hsv_to_rgb(final_hue, 1, brightness))
           /\ hue_arg' = <<final_hue>>
    /\ AfterSetPixel(i, IF i + 1 < num_leds THEN "write" ELSE "update")
    /\ UNCHANGED <<num_leds, routine, hue, step, rgb, knight, sparks, budget,
                   commits, delays, failed, colour>>

\* knightrider_color: update position and reverse direction at the ends
KnightRiderUpdate ==
    /\ pc = "update"
    /\ position' = position + direction
    /\ direction' = IF \/ position' <= 0 - TailLength(num_leds)
                       \/ position' >= num_leds - 1
                    THEN direction * (-1)
                    ELSE direction
    /\ pc' = "show"
    /\ UNCHANGED <<num_leds, pixels, routine, hue, step, i, value, rgb, sparks, budget,
                   hue_arg, writes, commits, delays, failed, colour>>

\* sparkle_color, fireplace: one turn of `for pixel in &mut self.blinkt`
DimPixel ==
    /\ pc = "dim"
    /\ i < Len(pixels)
    /\ LET decay == IF routine = "fireplace" THEN FireplaceDecay ELSE SparkleDecay
       IN  pixels' = [pixels EXCEPT ![i + 1] = Dimmed(pixels[i + 1], decay)]
    /\ hue_arg' = <<DimHsv(pixels[i + 1])[1]>>
    /\ i' = i + 1
    /\ pc' = IF i + 1 < Len(pixels) THEN "dim" ELSE "draw"
    /\ UNCHANGED <<num_leds, routine, hue, step, value, rgb, knight, sparks, budget,
                   writes, commits, delays, failed, colour>>

\* the spark routines: let num_sparks = rng.gen_range(1..=...)
DrawNumSparks ==
    /\ pc = "draw"
    /\ num_sparks' \in Draws(1, NumSparksMax(num_leds))
    /\ sparked' = 0
    /\ pc' = "spark"
    /\ UNCHANGED <<num_leds, pixels, routine, hue, step, i, value, rgb, knight, index,
                   budget, hue_arg, writes, commits, delays, failed, colour>>

\* one turn of `for _ in 0..num_sparks`, for the pixel and the colour drawn
Spark(idx, px) ==
    /\ pc = "spark"
    /\ sparked < num_sparks
    /\ index' = idx
    /\ pixels' = SetPixel(pixels, idx, px)
    /\ writes' = [j \in DOMAIN writes |-> IF j = idx + 1 THEN writes[j] + 1 ELSE writes[j]]
    /\ sparked' = sparked + 1
    /\ AfterSetPixel(idx, IF sparked + 1 < num_sparks THEN "spark" ELSE "show")
    /\ UNCHANGED <<num_leds, routine, hue, step, i, rgb, knight, num_sparks, budget,
                   commits, delays, failed, colour>>

\* sparkle_color
SparkleSpark ==
    /\ routine = "sparkle_color"
    /\ \E idx \in Draws(0, num_leds - 1), v \in SparkValues :
          LET final_hue == IF hue = RAINBOW THEN RainbowHue(idx, num_leds) ELSE hue
          IN  /\ Spark(idx, hsv_to_rgb(final_hue, 1, v))
              /\ value' = v
              /\ hue_arg' = <<final_hue>>

\* fireplace
FireplaceSpark ==
    /\ routine = "fireplace"
    /\ \E idx \in Draws(0, num_leds - 1), v \in SparkValues, h \in FireplaceHues :
          /\ Spark(idx, hsv_to_rgb(h, 1, v))
          /\ value' = v
          /\ hue_arg' = <<h>>

\* christmas_traditional
ChristmasSpark ==
    /\ routine = "christmas_traditional"
    /\ \E idx \in Draws(0, num_leds - 1), v \in SparkValues,
          c \in 1..Len(ChristmasPalette) :
          /\ value' = v
          /\ IF ChristmasPalette[c] = -1
             THEN /\ Spark(idx, <<255, 255, 255>>)
                  /\ UNCHANGED hue_arg
             ELSE /\ Spark(idx, hsv_to_rgb(ChristmasPalette[c], 1, v))
                  /\ hue_arg' = <<ChristmasPalette[c]>>

(***************************************************************************)
(* The end of a frame                                                      *)
(***************************************************************************)
\* self.blinkt.show() returns Ok
Show ==
    /\ pc = "show"
    /\ commits' = commits + 1
    /\ pc' = "sleep"
    /\ UNCHANGED <<num_leds, pixels, routine, hue, step, i, value, rgb, knight, sparks,
                   budget, hue_arg, writes, delays, failed, colour>>

\* a show() whose Err is dropped (`let _ = self.blinkt.show();`): the frame goes on
ShowFailDropped ==
    /\ pc = "show"
    /\ failed' = TRUE
    /\ pc' = "sleep"
    /\ UNCHANGED <<num_leds, pixels, routine, hue, step, i, value, rgb, knight, sparks,
                   budget, hue_arg, writes, commits, delays, colour>>

\* self.blinkt.show() returns Err: unwrap() panics and the invocation unwinds
ShowFail ==
    /\ pc = "show"
    /\ failed' = TRUE
    /\ pc' = "panicked"
    /\ UNCHANGED <<num_leds, pixels, routine, hue, step, i, value, rgb, knight, sparks,
                   budget, hue_arg, writes, commits, delays, colour>>

\* a pulse whose loop is `for step in 1..max_steps`: one frame short
FramesShort ==
    CASE routine = "pulse_color"       -> max_steps - 1
      [] routine = "chase_rainbow"     -> rainbow_offsets
      [] routine = "chase_color"       -> num_leds
      [] routine = "knightrider_color" -> TotalSteps(num_leds)
      [] OTHER                         -> 1

\* the number of frames of the routine
Frames ==
    CASE routine = "pulse_color"       -> max_steps
      [] routine = "chase_rainbow"     -> rainbow_offsets
      [] routine = "chase_color"       -> num_leds
      [] routine = "knightrider_color" -> TotalSteps(num_leds)
      [] OTHER                         -> 1

\* sleep(Duration::from_millis(delay_ms)), then the next frame or the return
Sleep ==
    /\ pc = "sleep"
    /\ delays' = delays + 1
    /\ IF step + 1 < Frames
       THEN /\ step' = step + 1
            /\ i' = 0
            /\ writes' = NoWrites
            /\ IF routine = "pulse_color"
               THEN /\ UNCHANGED hue
                    /\ PulseFrame(step + 1)
               ELSE /\ pc' = "write"
                    /\ UNCHANGED <<hue, value, rgb, hue_arg>>
       ELSE /\ pc' = "idle"
            /\ UNCHANGED <<hue, step, i, value, rgb, hue_arg, writes>>
    /\ UNCHANGED <<num_leds, pixels, routine, knight, sparks, budget, commits, failed,
                   colour>>

(***************************************************************************)
(* The colour model on its own                                             *)
(***************************************************************************)
\* channel bytes and brightness values the conversions are applied to
ChannelSamples == {0, 1, 2, 3, 5, 8, 43, 127, 128, 153, 254, 255}

ValueSamples == {F32Zero, F32Lit(1, 255), F32Lit(15, 100), F32Lit(1, 2), F32Lit(3, 5),
                 F32Lit(254, 255), F32One}

InitColor ==
    /\ num_leds = 1 /\ pixels = <<<<0, 0, 0>>>> /\ writes = <<0>>
    /\ routine = "none" /\ pc = "idle" /\ hue = 0 /\ step = 0 /\ i = 0
    /\ value = F32Zero /\ rgb = <<0, 0, 0>> /\ position = 0 /\ direction = 1
    /\ num_sparks = 0 /\ sparked = 0 /\ index = 0 /\ budget = 0 /\ hue_arg = <<>>
    /\ commits = 0 /\ delays = 0 /\ failed = FALSE
    /\ ret = <<>>
    /\ \/ \E r \in ChannelSamples, g \in ChannelSamples, b \in ChannelSamples :
             arg = <<"rgb", r, g, b>>
       \/ \E h \in 0..359, sat \in {0, 1}, v \in ValueSamples :
             arg = <<"hsv", h, sat, v>>

\* rgb_to_hsv(r, g, b)
CallRgbToHsv ==
    /\ ret = <<>>
    /\ arg # <<>>
    /\ arg[1] = "rgb"
    /\ ret' = rgb_to_hsv(arg[2], arg[3], arg[4])
    /\ UNCHANGED <<num_leds, pixels, routine, pc, hue, step, i, value, rgb, knight, sparks,
                   budget, hue_arg, writes, commits, delays, failed, arg>>

\* hsv_to_rgb(hue, saturation, value): the channels before and after the cast
CallHsvToRgb ==
    /\ ret = <<>>
    /\ arg # <<>>
    /\ arg[1] = "hsv"
    /\ ret' = <<hsv_rounded(arg[2], arg[3], arg[4]), hsv_to_rgb(arg[2], arg[3], arg[4])>>
    /\ UNCHANGED <<num_leds, pixels, routine, pc, hue, step, i, value, rgb, knight, sparks,
                   budget, hue_arg, writes, commits, delays, failed, arg>>

(***************************************************************************)
(* Specifications                                                          *)
(***************************************************************************)
\* every pattern, one invocation on a new controller of 1..MaxLeds pixels
Init == InitWith(1..MaxLeds, 1)

Next ==
    \/ ExecutePulse(Colors)
    \/ ExecuteChase(Colors)
    \/ ExecuteSparkle(Colors)
    \/ ExecuteKnightRider(Colors)
    \/ ExecuteFireplace
    \/ ExecuteChristmas
    \/ PulseWrite
    \/ ChaseRainbowWrite
    \/ ChaseColorWrite
    \/ KnightRiderWrite
    \/ KnightRiderUpdate
    \/ DimPixel
    \/ DrawNumSparks
    \/ SparkleSpark
    \/ FireplaceSpark
    \/ ChristmasSpark
    \/ Show
    \/ ShowFail
    \/ Sleep

Spec == Init /\ [][Next]_vars

\* the colour model on its own
NextColor == CallRgbToHsv \/ CallHsvToRgb

SpecColor == InitColor /\ [][NextColor]_vars

\* solid and rainbow chase, one invocation; strips of 1 pixel, one band
\* (band_size pixels) and two bands and a remainder
ChaseColors == {"Red", "Blue", "Rainbow"}

InitChase == InitWith({1, band_size, 2 * band_size + 1}, 1)

NextChase ==
    \/ ExecuteChase(ChaseColors)
    \/ ChaseRainbowWrite
    \/ ChaseColorWrite
    \/ Show
    \/ ShowFail
    \/ Sleep

SpecChase == InitChase /\ [][NextChase]_vars

\* the spark routines, one invocation, on strips on both sides of 10 pixels
InitSparks == InitWith({SmallStrip, 10, LargeStrip}, 1)

NextSparks ==
    \/ ExecuteSparkle(Colors)
    \/ ExecuteFireplace
    \/ ExecuteChristmas
    \/ DimPixel
    \/ DrawNumSparks
    \/ SparkleSpark
    \/ FireplaceSpark
    \/ ChristmasSpark
    \/ Show
    \/ ShowFail
    \/ Sleep

SpecSparks == InitSparks /\ [][NextSparks]_vars

\* Sparkle invoked again and again, as the documentation has the caller do
\* (`loop { controller.execute_pattern(...) }`)
SparkleColors == {"Red", "Rainbow"}

NextSparkle ==
    \/ ExecuteSparkle(SparkleColors)
    \/ DimPixel
    \/ DrawNumSparks
    \/ SparkleSpark
    \/ Show
    \/ ShowFail
    \/ Sleep

InitFade == InitWith({FadeLeds}, -1)

SpecFade == InitFade /\ [][NextSparkle]_vars

\* two Sparkle invocations on a long strip
InitWide == InitWith({WideLeds}, 2)

SpecWide == InitWide /\ [][NextSparkle]_vars

\* every pattern, one invocation, with set_num_leds called at will before and
\* after it
NextResize == SetNumLeds \/ Next

SpecResize == Init /\ [][NextResize]_vars

(***************************************************************************)
(* Properties                                                              *)
(***************************************************************************)
SparkRoutines == {"sparkle_color", "fireplace", "christmas_traditional"}

\* C1: hsv_to_rgb is never called with hue = -1, the rainbow sentinel; the
\* dim step of Sparkle, which passes on the hue rgb_to_hsv recovers from the
\* buffer, included.
C1_SentinelNeverPassed == hue_arg # <<RAINBOW>>

\* the dim step of the second Sparkle hands on the -1 recovered from the spark
\* that the first Sparkle left on the last pixel
C1_Witness ==
    /\ routine = "sparkle_color" /\ num_leds = WideLeds /\ budget = 0
    /\ pc = "draw" /\ i = WideLeds
    /\ hue_arg = <<RAINBOW>>

\* C2: during a KnightRider invocation on a strip of any length n >= 1 the
\* position stays in [-tail_length, n - 1], at the start and after every update.
C2_PositionInInterval ==
    routine = "knightrider_color" =>
        /\ position >= 0 - TailLength(num_leds)
        /\ position <= num_leds - 1

\* on a strip of one pixel the first update takes the position off the strip
C2_Witness ==
    /\ routine = "knightrider_color" /\ num_leds = 1 /\ step = 0 /\ pc = "show"
    /\ position = 1 /\ direction = -1

\* the pixels 0..upto-1 written once, the others not yet, in this frame
WrittenOnce(upto) == \A j \in DOMAIN writes : writes[j] = IF j <= upto THEN 1 ELSE 0

PulseFrameCounts ==
    routine = "pulse_color" =>
        /\ step \in 0..99
        /\ Len(writes) = num_leds
        /\ pc = "write" => WrittenOnce(i) /\ i < num_leds /\ commits = step /\ delays = step
        /\ pc = "show" => WrittenOnce(num_leds) /\ commits = step /\ delays = step
        /\ pc = "sleep" => WrittenOnce(num_leds) /\ commits = step + 1 /\ delays = step
        /\ pc = "idle" => WrittenOnce(num_leds) /\ commits = 100 /\ delays = 100 /\ ~failed
        /\ pc = "panicked" => failed

PulseReturned == routine = "pulse_color" /\ pc = "idle" /\ commits = 100 /\ delays = 100

\* the steps a Pulse invocation still has to take before it returns
PulseRemaining ==
    IF pc \in {"idle", "panicked"} THEN 0
    ELSE (100 - step) * (num_leds + 2)
         - (IF pc = "write" THEN i ELSE IF pc = "show" THEN num_leds ELSE num_leds + 1)

PulseAdvances ==
    (routine = "pulse_color" /\ routine' = "pulse_color") =>
        /\ PulseRemaining' < PulseRemaining
        /\ PulseRemaining' >= 0
        /\ PulseRemaining' = 0 => (PulseReturned' \/ failed')

\* C3: one Pulse invocation, on a strip of any length and in any colour, writes
\* every pixel once in each frame, then commits once, then sleeps once, and
\* returns after exactly 100 such frames: every step brings the return nearer,
\* a step is always there to take (pc = "write" has i < num_leds), and nothing
\* but a failed commit ends the invocation early.
C3_PulseHundredFrames == []PulseFrameCounts /\ [][PulseAdvances]_vars

C3_Witness == PulseReturned /\ num_leds = 1 /\ hue = BLUE_HUE /\ pixels[1] # <<0, 0, 0>>

\* the spark routine has drawn its number of sparks
SparksDrawn == routine \in SparkRoutines /\ pc \in {"spark", "show", "sleep", "idle", "panicked"}

\* C4: Sparkle, Fireplace and ChristmasTraditional draw between 1 and n sparks
\* on a strip of n < 10 pixels and between 1 and max(1, n/10) on a longer one
\* (1..5 for n = 5, 1..10 for n = 100), each spark with a brightness in
\* [0.5, 1.0].
C4_SparkCountAndBrightness ==
    /\ NumSparksMax(5) = 5
    /\ NumSparksMax(100) = 10
    /\ SparksDrawn =>
          /\ num_sparks >= 1
          /\ num_sparks <= (IF num_leds < 10 THEN num_leds
                            ELSE IF num_leds \div 10 < 1 THEN 1 ELSE num_leds \div 10)
          /\ sparked <= num_sparks
          /\ sparked > 0 => F32Le(F32Lit(1, 2), value) /\ F32Le(value, F32One)

C4_Witness ==
    /\ routine = "fireplace" /\ num_leds = LargeStrip /\ pc = "show"
    /\ num_sparks = LargeStrip \div 10 /\ sparked = num_sparks
    /\ value = F32Lit(1, 2)

\* C5: under repeated Sparkle invocations a lit pixel that is not sparked again
\* reaches (0,0,0) after finitely many dim steps. The dim step is one function
\* of the pixel, so the pixel gets there only if no dim step leaves a lit pixel
\* as it was: every dim step of a lit pixel changes it.
C5_DimStepDarkens ==
    [][(routine = "sparkle_color" /\ pc = "dim" /\ pixels[i + 1] # <<0, 0, 0>>)
          => pixels'[i + 1] # pixels[i + 1]]_vars

\* a pixel the dim step has just left at (2,0,0), where it found it
C5_Witness ==
    /\ routine = "sparkle_color" /\ pc = "dim" /\ i = 1
    /\ pixels[1] = <<2, 0, 0>>
    /\ Dimmed(pixels[1], SparkleDecay) = pixels[1]

MaxChannel(r, g, b) == IF r >= g /\ r >= b THEN r ELSE IF g >= b THEN g ELSE b

\* C6: for r, g, b in 0..255 rgb_to_hsv returns a hue in 0..359, a saturation
\* of 0 or 1 and the value max(r, g, b) / 255, in [0, 1].
C6_HueSatValue ==
    (ret # <<>> /\ arg[1] = "rgb") =>
        /\ ret[1] \in 0..359
        /\ ret[2] \in {0, 1}
        /\ ret[3] = F32Div(F32FromInt(MaxChannel(arg[2], arg[3], arg[4])), F32FromInt(255))
        /\ F32Le(F32Zero, ret[3]) /\ F32Le(ret[3], F32One)

\* magenta comes back with the hue -60
C6_Witness == arg = <<"rgb", 255, 0, 255>> /\ ret # <<>> /\ ret[1] = -60

\* the brightness of the first and of the last of the 100 frames, and of all
PulseEnds(last) ==
    routine = "pulse_color" =>
        /\ step = 0 => value = F32Lit(15, 100)
        /\ step = 99 => last
        /\ F32Le(F32Lit(15, 100), value) /\ F32Le(value, F32One)

\* from one frame to the next: up until 1.0 is reached (at step 50), then down
PulseMonotone ==
    (routine = "pulse_color" /\ routine' = "pulse_color" /\ step' = step + 1) =>
        /\ value # F32One => (step < 50 <=> F32Lt(value, value'))
        /\ value = F32One => step = 50 /\ F32Lt(value', value)

AfterFailure == failed => pc = "panicked"

FailureAborts ==
    /\ (failed' /\ ~failed) =>
          /\ pc = "show"
          /\ pc' = "panicked"
          /\ UNCHANGED <<pixels, writes, commits, delays, step>>
    /\ failed => UNCHANGED vars

\* C8: a commit that fails ends the invocation there and then: the routine
\* does not return normally, the commit is not tried again, no pixel is written,
\* nothing is committed and no delay is slept afterwards, and the buffer is as
\* the frame wrote it.
C8_CommitFailureAborts == []AfterFailure /\ [][FailureAborts]_vars

C8_Witness ==
    /\ failed /\ pc = "panicked" /\ routine = "knightrider_color"
    /\ step = 1 /\ commits = 1 /\ delays = 1
    /\ pixels # [j \in 1..num_leds |-> <<0, 0, 0>>]

\* chase_color has written pixel i - 1 of this frame, at this pos_in_band of band 0
ChaseWritten == routine = "chase_color" /\ i >= 1

ChasePos == (i - 1 + step) % num_leds

SquareOf(t) == F32Mul(t, t)

ChaseBands ==
    routine = "chase_color" =>
        /\ NumBands(num_leds) = (IF num_leds \div 30 < 1 THEN 1 ELSE num_leds \div 30)
        /\ BandWidth(num_leds) = num_leds \div (2 * NumBands(num_leds))
        /\ num_leds = 30 => NumBands(num_leds) = 1 /\ BandWidth(num_leds) = 15

ChaseBrightness ==
    ChaseWritten =>
        /\ F32Le(F32Zero, value) /\ F32Le(value, F32One)
        /\ num_leds = 30 =>
              /\ ChasePos = 0 => value = F32Zero
              /\ ChasePos < 15 =>
                    value = SquareOf(F32Div(F32FromInt(ChasePos), F32FromInt(15)))
              /\ ChasePos >= 15 =>
                    value = SquareOf(F32Sub(F32One, F32Div(F32FromInt(ChasePos - 15),
                                                           F32FromInt(15))))

\* from the pixel at pos_in_band p to the next, at p + 1
ChaseMonotone ==
    (ChaseWritten /\ num_leds = 30 /\ i' = i + 1 /\ ChasePos < 29) =>
        /\ ChasePos < 15 => F32Lt(value, value')
        /\ ChasePos >= 15 => F32Lt(value', value)

\* C9: solid-colour Chase has max(1, n/30) bands of half-width n/(2*num_bands),
\* one band of half-width 15 for n = 30; there the brightness is 0 at
\* pos_in_band 0, rises as (pos/15)^2 over 0..14, is 1 at 15 and falls as
\* (1 - (pos-15)/15)^2 over 15..29; it is in [0, 1] on every strip.
C9_ChaseBands == [](ChaseBands /\ ChaseBrightness) /\ [][ChaseMonotone]_vars

C9_Witness ==
    /\ ChaseWritten /\ num_leds = 30 /\ hue = BLUE_HUE
    /\ ChasePos = 15 /\ value = F32One
    /\ pixels[i] = <<0, 0, 255>>

PureColour(h) ==
    CASE h = 0   -> <<255, 0, 0>>
      [] h = 60  -> <<255, 255, 0>>
      [] h = 120 -> <<0, 255, 0>>
      [] h = 180 -> <<0, 255, 255>>
      [] h = 240 -> <<0, 0, 255>>
      [] h = 300 -> <<255, 0, 255>>

\* C10: for a hue in 0..359, a saturation of 0 or 1 and a value in [0, 1] the
\* channels of hsv_to_rgb are in 0..255 already before the cast to u8, and
\* the hues 0, 60, 120, 180, 240, 300 at saturation 1 and value 1 give red,
\* yellow, green, cyan, blue and magenta.
C10_ChannelsAndPureColours ==
    (ret # <<>> /\ arg[1] = "hsv") =>
        /\ \A c \in 1..3 : ret[1][c] \in 0..255
        /\ ret[2] = ret[1]
        /\ (arg[3] = 1 /\ arg[4] = F32One /\ arg[2] \in {0, 60, 120, 180, 240, 300}) =>
              ret[2] = PureColour(arg[2])

C10_Witness == ret # <<>> /\ arg = <<"hsv", 300, 1, F32One>> /\ ret[2] = <<255, 0, 255>>

\* the index a pixel loop is about to pass to set_pixel, and the one a spark
\* loop has last passed, are inside the buffer
IndexInBuffer ==
    /\ pc = "write" => i < Len(pixels)
    /\ (SparksDrawn /\ sparked > 0) => index < Len(pixels)

BufferKeepsLength == Len(pixels') = Len(pixels)

\* C11: after new(n0), calls of set_num_leds(k) with k >= 1 and pattern
\* invocations, every index passed to set_pixel is smaller than the length of
\* the pixel buffer, and that length stays the n0 of the construction.
C11_IndexInBuffer == []IndexInBuffer /\ [][BufferKeepsLength]_vars

\* new(1), set_num_leds(2), Pulse: pixel 0 written, set_pixel(1, ...) next
C11_Witness ==
    /\ routine = "pulse_color" /\ pc = "write"
    /\ Len(pixels) = 1 /\ num_leds = 2
    /\ i = 1 /\ writes = <<1>>
=============================================================================
